---- MODULE Spec2Model ----
(***************************************************************************)
(* audio-silence-trimmer: the per-file transform trimFile (src/index.ts)   *)
(* and the filesystem transaction it runs around the external processor.   *)
(*                                                                         *)
(* A path is a sequence of tokens of one directory: "." is the dot         *)
(* character, every other token is a non-empty run of characters holding   *)
(* no dot and no separator, so that concatenation of strings is \o and     *)
(* two paths are the same string exactly when they are the same sequence.  *)
(* A path stands for the file it names: other spellings of the same file   *)
(* ("./a.mp3", "d/../a.mp3") are not distinguished.  The external prober   *)
(* and processor are black boxes that resolve or reject.                   *)
(***************************************************************************)
EXTENDS Integers, Sequences, FiniteSets, TLC

VARIABLES
  fs,         \* the directory: path -> [kind, data]
  now,        \* Date.now()
  pc,         \* where trimFile is suspended (which await)
  inputPath,  \* trimFile's first argument
  options,    \* [inPlace, noBackup, suffix]
  paths,      \* the OutputPaths plan
  result,     \* the TrimResult the promise resolved with
  log,        \* external operations issued by the current run, in order
  fs0,        \* the directory when the current run was called
  runs,       \* number of trimFile calls so far
  prev,       \* summary of the previous completed run
  probeOut,   \* what the prober prints for the input when it exits 0
  info,       \* the stream info getAudioStreamInfo resolved with
  codec,      \* the codec arguments chosen for the processor
  batch       \* the caller of trimFile: runCli or trimDirectory

vars == <<fs, now, pc, inputPath, options, paths, result, log, fs0, runs, prev,
          probeOut, info, codec, batch>>

\* ---- bounds ----
MaxRuns == 2
MaxNow == 2
MaxLines == 2

\* ---- strings and node:path ----
ToLowerCase(s) ==
  [i \in DOMAIN s |->
     CASE s[i] = "MP3" -> "mp3"
       [] s[i] = "WAV" -> "wav"
       [] s[i] = "OGG" -> "ogg"
       [] OTHER -> s[i]]

SUPPORTED_EXTS == {<<".", "mp3">>, <<".", "wav">>, <<".", "ogg">>}

DotPositions(s) == {i \in DOMAIN s : s[i] = "."}

LastDot(s) == CHOOSE i \in DotPositions(s) : \A j \in DotPositions(s) : j <= i

\* path.extname: from the last dot to the end; empty when there is no dot,
\* when the last dot is the first character, or when the name is "..".
ExtName(s) ==
  IF DotPositions(s) = {} THEN <<>>
  ELSE LET sd == LastDot(s) IN
       IF sd = 1 THEN <<>>
       ELSE IF s[1] = "." /\ sd = Len(s) /\ sd = 2 THEN <<>>
       ELSE SubSeq(s, sd, Len(s))

\* path.basename(p, ext): the name without a trailing ext (unless the name
\* is ext itself, which yields the empty string).
BaseName(s, ext) ==
  IF Len(ext) > 0 /\ Len(ext) <= Len(s)
     /\ SubSeq(s, Len(s) - Len(ext) + 1, Len(s)) = ext
  THEN SubSeq(s, 1, Len(s) - Len(ext))
  ELSE s

\* ---- OutputPaths ----
NoPaths == [kind |-> "none", out |-> <<>>, tmp |-> <<>>, bak |-> <<>>, final |-> <<>>]

\* Faulty variant: the copy output name carries the time token too.
BuildOutputPathsStamped(inPath, suffix, inPlace, t) ==
  LET ext == ExtName(inPath)
      base == BaseName(inPath, ext)
  IN IF inPlace
     THEN [kind |-> "inPlace", out |-> <<>>,
           tmp |-> base \o <<".", "__tmp_", ToString(t)>> \o ext,
           bak |-> base \o <<".", "bak">> \o ext,
           final |-> inPath]
     ELSE [kind |-> "copy", out |-> base \o suffix \o <<ToString(t)>> \o ext,
           tmp |-> <<>>, bak |-> <<>>, final |-> <<>>]

\* buildOutputPaths(inputPath, suffix, inPlace); t is the value Date.now()
\* returns. All paths stay in the directory of the input.
BuildOutputPaths(inPath, suffix, inPlace, t) ==
  LET ext == ExtName(inPath)
      base == BaseName(inPath, ext)
  IN IF inPlace
     THEN [kind |-> "inPlace", out |-> <<>>,
           tmp |-> base \o <<".", "__tmp_", ToString(t)>> \o ext,
           bak |-> base \o <<".", "bak">> \o ext,
           final |-> inPath]
     ELSE [kind |-> "copy", out |-> base \o suffix \o ext,
           tmp |-> <<>>, bak |-> <<>>, final |-> <<>>]

\* const target = paths.kind === 'inPlace' ? paths.tmp : paths.out
Target(p) == IF p.kind = "inPlace" THEN p.tmp ELSE p.out

\* ---- the filesystem (node:fs) ----
NoData == [src |-> "-", gen |-> 0, whole |-> TRUE]
FileEntry(d) == [kind |-> "file", data |-> d]
DirEntry == [kind |-> "dir", data |-> NoData]

ExistsSync(f, p) == p \in DOMAIN f
IsFile(f, p) == p \in DOMAIN f /\ f[p].kind = "file"
IsDir(f, p) == p \in DOMAIN f /\ f[p].kind = "dir"
Remove(f, p) == [q \in DOMAIN f \ {p} |-> f[q]]
Put(f, p, e) == [q \in DOMAIN f \cup {p} |-> IF q = p THEN e ELSE f[q]]

\* fs.rename(src, dst) can succeed only if src exists and dst is absent or
\* of the same kind; it then replaces dst. A failed rename changes nothing.
CanRename(f, src, dst) ==
  ExistsSync(f, src) /\ (ExistsSync(f, dst) => f[dst].kind = f[src].kind)
DoRename(f, src, dst) == IF src = dst THEN f ELSE Put(Remove(f, src), dst, f[src])

\* fs.unlink(p) can succeed only on an existing non-directory.
CanUnlink(f, p) == IsFile(f, p)

\* ---- the external processor ----
\* What a run that exits 0 leaves at its target, and what a run that fails
\* after opening its target may leave there.
Trimmed(d) == [d EXCEPT !.gen = @ + 1]
Partial(d) == [d EXCEPT !.gen = @ + 1, !.whole = FALSE]

\* ---- the prober's output and its parsing ----
\* A stdout is a sequence of tokens: "\n" ends a line, "=" separates key and
\* value, the keys are single tokens, a value is a run of one-character tokens.
Null == [isNull |-> TRUE, n |-> 0]
Num(k) == [isNull |-> FALSE, n |-> k]
NullInfo == [bitrateKbps |-> Null, bitsPerSample |-> Null]

\* s.split(sep): the pieces of s between the separator tokens.
RECURSIVE SplitOn(_, _)
SplitOn(s, seps) ==
  IF \A i \in DOMAIN s : s[i] \notin seps THEN <<s>>
  ELSE LET k == CHOOSE i \in DOMAIN s :
                  s[i] \in seps /\ \A j \in 1..(i - 1) : s[j] \notin seps
       IN <<SubSeq(s, 1, k - 1)>> \o SplitOn(SubSeq(s, k + 1, Len(s)), seps)

Digits == <<"0", "1", "2", "3", "4", "5", "6", "7", "8", "9">>
IsDigit(c) == \E d \in DOMAIN Digits : Digits[d] = c
DigitValue(c) == (CHOOSE d \in DOMAIN Digits : Digits[d] = c) - 1

RECURSIVE DecimalValue(_)
DecimalValue(ds) ==
  IF ds = <<>> THEN 0
  ELSE 10 * DecimalValue(SubSeq(ds, 1, Len(ds) - 1)) + DigitValue(ds[Len(ds)])

\* Number.parseInt(v, 10): leading blanks, an optional sign, then the longest
\* run of digits; NaN when that run is empty.
NaN == [nan |-> TRUE, n |-> 0]
ParseInt(v) ==
  LET blanks == IF \A i \in DOMAIN v : v[i] = " " THEN Len(v)
                ELSE (CHOOSE i \in DOMAIN v :
                        v[i] # " " /\ \A j \in 1..(i - 1) : v[j] = " ") - 1
      r1 == SubSeq(v, blanks + 1, Len(v))
      signed == r1 # <<>> /\ r1[1] \in {"+", "-"}
      r2 == IF signed THEN SubSeq(r1, 2, Len(r1)) ELSE r1
      nd == IF \A i \in DOMAIN r2 : IsDigit(r2[i]) THEN Len(r2)
            ELSE (CHOOSE i \in DOMAIN r2 :
                    ~IsDigit(r2[i]) /\ \A j \in 1..(i - 1) : IsDigit(r2[j])) - 1
      mag == DecimalValue(SubSeq(r2, 1, nd))
  IN IF nd = 0 THEN NaN
     ELSE [nan |-> FALSE, n |-> IF signed /\ r1[1] = "-" THEN 0 - mag ELSE mag]

\* Math.round(x / 1000) for an integer x > 0
RoundKilo(x) == (x + 500) \div 1000

\* One line of the loop body: the new stream info after the line.
ParseLine(acc, line) ==
  IF line = <<>> THEN acc
  ELSE LET parts == SplitOn(line, {"="})
           k == parts[1]
           v == IF Len(parts) >= 2 THEN parts[2] ELSE <<>>
           bps == ParseInt(v)
       IN IF k = <<"bit_rate">>
          THEN IF ~bps.nan /\ bps.n > 0
               THEN [acc EXCEPT !.bitrateKbps = Num(RoundKilo(bps.n))]
               ELSE acc
          ELSE IF k = <<"bits_per_sample">>
          THEN IF ~bps.nan /\ bps.n > 0
               THEN [acc EXCEPT !.bitsPerSample = Num(bps.n)]
               ELSE acc
          ELSE acc

RECURSIVE ParseLines(_, _)
ParseLines(acc, lines) ==
  IF lines = <<>> THEN acc
  ELSE ParseLines(ParseLine(acc, Head(lines)), Tail(lines))

\* the for loop over stdout.split(/\r?\n/)
ParseProberOutput(stdout) == ParseLines(NullInfo, SplitOn(stdout, {"\n", "\r\n"}))

\* Faulty variant: the prober's rejection is not caught into {null, null}.
GetAudioStreamInfoNoCatch(ok, stdout) == ParseProberOutput(stdout)
\* getAudioStreamInfo: the parsed output when run() resolves, {null, null}
\* when it rejects.
GetAudioStreamInfo(ok, stdout) ==
  IF ok THEN ParseProberOutput(stdout) ELSE NullInfo

\* ---- codec selection ----
\* JavaScript truthiness of a number | null
Truthy(x) == ~x.isNull /\ x.n # 0

\* codecArgsFor(ext, info)
CodecArgsFor(ext, i) ==
  IF ext = <<".", "mp3">>
  THEN IF Truthy(i.bitrateKbps)
       THEN <<"-c:a", "libmp3lame", "-b:a", ToString(i.bitrateKbps.n) \o "k">>
       ELSE <<"-c:a", "libmp3lame", "-q:a", "2">>
  ELSE IF ext = <<".", "ogg">>
  THEN IF Truthy(i.bitrateKbps)
       THEN <<"-c:a", "libvorbis", "-b:a", ToString(i.bitrateKbps.n) \o "k">>
       ELSE <<"-c:a", "libvorbis", "-q:a", "5">>
  ELSE LET bits == IF i.bitsPerSample.isNull THEN 16 ELSE i.bitsPerSample.n
       IN IF bits >= 32 THEN <<"-c:a", "pcm_s32le">>
          ELSE IF bits >= 24 THEN <<"-c:a", "pcm_s24le">>
          ELSE <<"-c:a", "pcm_s16le">>

\* bit_rate=128000, bits_per_sample=0: what the prober prints for an MP3
DefaultProberOutput ==
  <<"bit_rate", "=", "1", "2", "8", "0", "0", "0", "\n",
    "bits_per_sample", "=", "0", "\n">>

\* ---- the caller ----
NoFlags == [version |-> FALSE, help |-> FALSE, all |-> FALSE,
            hasFile |-> FALSE, fileArg |-> <<>>]
NoBatch ==
  [caller |-> "none", bpc |-> "none", flags |-> NoFlags,
   options |-> [inPlace |-> FALSE, noBackup |-> FALSE, suffix |-> <<"_trimmed">>],
   targets |-> <<>>, started |-> <<>>, collected |-> <<>>, results |-> <<>>,
   ok |-> 0, err |-> 0, skipped |-> 0, exitCode |-> 0]

\* ---- TrimResult ----
NoResult == [status |-> "none", hasPath |-> FALSE, outputPath |-> <<>>]
Skipped == [status |-> "skipped", hasPath |-> FALSE, outputPath |-> <<>>]
\* Faulty variant: a rejection that no catch intercepts leaves trimFile.
Thrown == [status |-> "thrown", hasPath |-> FALSE, outputPath |-> <<>>]
\* return { status: 'error' }
ErrorResult == [status |-> "error", hasPath |-> FALSE, outputPath |-> <<>>]
\* return { status: 'ok', outputPath: p }
OkResult(p) == [status |-> "ok", hasPath |-> TRUE, outputPath |-> p]

\* ---- decisions of trimFile ----
\* Faulty variant: the extension is not looked at.
PassesValidationAnyExt(statOk, f, p) == statOk /\ IsFile(f, p)
\* stat resolved, stat.isFile(), and the lower-cased extension is supported.
PassesValidation(statOk, f, p) ==
  /\ statOk
  /\ IsFile(f, p)
  /\ ToLowerCase(ExtName(p)) \in SUPPORTED_EXTS

\* Faulty variants: the temp file is not cleaned up after a failed transform /
\* the cleanup does not look at the kind of plan.
NeedsTempCleanupNever(p, f) == FALSE
NeedsTempCleanupAnyKind(p, f) == TRUE
\* paths.kind === 'inPlace' && existsSync(paths.tmp)
NeedsTempCleanup(p, f) == p.kind = "inPlace" /\ ExistsSync(f, p.tmp)

\* Faulty variants: the original is always deleted / always backed up.
DisplaceStepDelete(noBackup) == "deleteOriginal"
DisplaceStepBackup(noBackup) == "backup"
\* if (!noBackup) rename(inputPath, paths.bak) else unlink(inputPath)
DisplaceStep(noBackup) == IF noBackup THEN "deleteOriginal" ELSE "backup"

\* Faulty variants: a failed displacement falls through to the final rename /
\* is tried again.
AfterDisplaceFallThrough(ok) == "finalize"
AfterDisplaceRetry(ok) == IF ok THEN "finalize" ELSE "backup"
\* the displacement resolved: go on to the final rename; it rejected: delete
\* the temp output and return error.
AfterDisplace(ok) == IF ok THEN "finalize" ELSE "deleteTemp"

\* Faulty variant: the backup is never put back.
NeedsRestoreNever(noBackup, p, f) == FALSE
\* !noBackup && existsSync(paths.bak)
NeedsRestore(noBackup, p, f) == ~noBackup /\ ExistsSync(f, p.bak)

\* ---- the log of issued operations ----
Op(kind, src, dst, ok) == [op |-> kind, src |-> src, dst |-> dst, ok |-> ok]
Failed(kind, src, dst) ==
  \E i \in DOMAIN log : log[i] = Op(kind, src, dst, FALSE)

\* ---- inputs ----
InputPaths ==
  { <<"a", ".", "mp3">>,                \* a regular file
    <<"b", ".", "MP3">>,                \* a regular file, upper-case extension,
                                        \* whose backup slot is a directory
    <<"a", ".", "bak", ".", "mp3">>,    \* a regular file, the backup slot of a.mp3
    <<"d", ".", "ogg">>,                \* a directory
    <<"m", ".", "wav">>,                \* missing
    <<"a", ".", "txt">>,                \* a regular file, unsupported
    <<".", "mp3">> }                    \* a regular file whose extname is ''

Suffixes == { <<"_trimmed">>, <<>> }

OptionSets == [inPlace : BOOLEAN, noBackup : BOOLEAN, suffix : Suffixes]

Raw(x) == FileEntry([src |-> x, gen |-> 0, whole |-> TRUE])

BaseDir ==
  ( <<"a", ".", "mp3">> :> Raw("A") ) @@
  ( <<"b", ".", "MP3">> :> Raw("B") ) @@
  ( <<"b", ".", "bak", ".", "MP3">> :> DirEntry ) @@
  ( <<"d", ".", "ogg">> :> DirEntry ) @@
  ( <<"a", ".", "txt">> :> Raw("T") ) @@
  ( <<".", "mp3">> :> Raw("H") )

\* The three supported files cover the three states of a backup slot: a.mp3's
\* slot a.bak.mp3 is a file, b.MP3's slot is a directory, and a.bak.mp3's slot
\* a.bak.bak.mp3 is absent.
InitDirs ==
  { Put(BaseDir, <<"a", ".", "bak", ".", "mp3">>, Raw("K")) }

NoPrev == [status |-> "none", inPlace |-> FALSE, suffix |-> <<>>,
           input |-> <<>>, outputPath |-> <<>>, names |-> {}]

Init ==
  /\ fs \in InitDirs
  /\ now = 1
  /\ pc = "idle"
  /\ inputPath = <<>>
  /\ options = [inPlace |-> FALSE, noBackup |-> FALSE, suffix |-> <<"_trimmed">>]
  /\ paths = NoPaths
  /\ result = NoResult
  /\ log = <<>>
  /\ fs0 = fs
  /\ runs = 0
  /\ prev = NoPrev
  /\ probeOut = DefaultProberOutput
  /\ info = NullInfo
  /\ codec = <<>>
  /\ batch = NoBatch

\* ---- trimFile, one action per await ----
Return(r) ==
  /\ result' = r
  /\ pc' = "done"

\* trimFile(p, o) is called (the previous call, if any, has returned).
Call(p, o) ==
  /\ pc \in {"idle", "done"}
  /\ runs < MaxRuns
  /\ runs' = runs + 1
  /\ inputPath' = p
  /\ options' = o
  /\ paths' = NoPaths
  /\ result' = NoResult
  /\ log' = <<>>
  /\ fs0' = fs
  /\ pc' = "stat"
  /\ prev' = IF pc = "done"
             THEN [status |-> result.status, inPlace |-> options.inPlace,
                   suffix |-> options.suffix, input |-> inputPath,
                   outputPath |-> result.outputPath, names |-> DOMAIN fs]
             ELSE prev
  /\ info' = NullInfo
  /\ codec' = <<>>
  /\ UNCHANGED <<fs, now, probeOut>>

\* trimFile called by a user of the library, outside any batch.
DirectCall(p, o) == Call(p, o) /\ UNCHANGED batch

\* await fs.stat(inputPath), then the two validation returns.
Stat ==
  /\ pc = "stat"
  /\ \E ok \in BOOLEAN :
       /\ ok => ExistsSync(fs, inputPath)
       /\ log' = Append(log, Op("stat", inputPath, <<>>, ok))
       /\ IF PassesValidation(ok, fs, inputPath)
          THEN pc' = "probe" /\ UNCHANGED result
          ELSE Return(Skipped)
  /\ UNCHANGED <<fs, now, inputPath, options, paths, fs0, runs, prev, probeOut, info, codec, batch>>

\* await getAudioStreamInfo(inputPath): the prober resolves or rejects, the
\* rejection is swallowed; then the plan is built from Date.now(). The clock
\* never runs backwards, and a stamp is only ever compared for equality with
\* the stamps in earlier temp names, so it either repeats the last reading or
\* is the next fresh one.
Probe ==
  /\ pc = "probe"
  /\ \E ok \in BOOLEAN, t \in { n \in {now, now + 1} : n <= MaxNow } :
       /\ log' = Append(log, Op("probe", inputPath, <<>>, ok))
       /\ now' = t
       /\ paths' = BuildOutputPaths(inputPath, options.suffix, options.inPlace, t)
       /\ info' = GetAudioStreamInfo(ok, probeOut)
       /\ codec' = CodecArgsFor(ToLowerCase(ExtName(inputPath)),
                                GetAudioStreamInfo(ok, probeOut))
  /\ pc' = "transform"
  /\ UNCHANGED <<fs, inputPath, options, result, fs0, runs, prev, probeOut, batch>>

\* await run(ffmpegPath, args) resolves: the target holds the trimmed audio.
TransformOk ==
  /\ pc = "transform"
  /\ IsFile(fs, inputPath)
  /\ ~IsDir(fs, Target(paths))
  /\ fs' = Put(fs, Target(paths), FileEntry(Trimmed(fs[inputPath].data)))
  /\ log' = Append(log, Op("ffmpeg", inputPath, Target(paths), TRUE))
  /\ IF paths.kind = "inPlace"
     THEN pc' = DisplaceStep(options.noBackup) /\ UNCHANGED result
     ELSE Return(OkResult(paths.out))
  /\ UNCHANGED <<now, inputPath, options, paths, fs0, runs, prev, probeOut, info, codec, batch>>

\* await run(ffmpegPath, args) rejects (non-zero exit or spawn error), having
\* written nothing or a partial file to the target.
TransformFail ==
  /\ pc = "transform"
  /\ \E wrote \in BOOLEAN :
       /\ wrote => (IsFile(fs, inputPath) /\ ~IsDir(fs, Target(paths)))
       /\ fs' = IF wrote
                THEN Put(fs, Target(paths), FileEntry(Partial(fs[inputPath].data)))
                ELSE fs
  /\ log' = Append(log, Op("ffmpeg", inputPath, Target(paths), FALSE))
  /\ IF NeedsTempCleanup(paths, fs')
     THEN pc' = "deleteTemp" /\ UNCHANGED result
     ELSE Return(ErrorResult)
  /\ UNCHANGED <<now, inputPath, options, paths, fs0, runs, prev, probeOut, info, codec, batch>>

\* try { await fs.unlink(paths.tmp) } catch {} ; return error
DeleteTemp ==
  /\ pc = "deleteTemp"
  /\ \E ok \in BOOLEAN :
       /\ ok => CanUnlink(fs, paths.tmp)
       /\ fs' = IF ok THEN Remove(fs, paths.tmp) ELSE fs
       /\ log' = Append(log, Op("unlink", paths.tmp, <<>>, ok))
  /\ Return(ErrorResult)
  /\ UNCHANGED <<now, inputPath, options, paths, fs0, runs, prev, probeOut, info, codec, batch>>

\* await fs.rename(inputPath, paths.bak)
Backup ==
  /\ pc = "backup"
  /\ \E ok \in BOOLEAN :
       /\ ok => CanRename(fs, inputPath, paths.bak)
       /\ fs' = IF ok THEN DoRename(fs, inputPath, paths.bak) ELSE fs
       /\ log' = Append(log, Op("rename", inputPath, paths.bak, ok))
       /\ pc' = AfterDisplace(ok)
  /\ UNCHANGED <<now, inputPath, options, paths, result, fs0, runs, prev, probeOut, info, codec, batch>>

\* await fs.unlink(inputPath)
DeleteOriginal ==
  /\ pc = "deleteOriginal"
  /\ \E ok \in BOOLEAN :
       /\ ok => CanUnlink(fs, inputPath)
       /\ fs' = IF ok THEN Remove(fs, inputPath) ELSE fs
       /\ log' = Append(log, Op("unlink", inputPath, <<>>, ok))
       /\ pc' = AfterDisplace(ok)
  /\ UNCHANGED <<now, inputPath, options, paths, result, fs0, runs, prev, probeOut, info, codec, batch>>

\* await fs.rename(paths.tmp, paths.final) resolves
FinalizeOk ==
  /\ pc = "finalize"
  /\ CanRename(fs, paths.tmp, paths.final)
  /\ fs' = DoRename(fs, paths.tmp, paths.final)
  /\ log' = Append(log, Op("rename", paths.tmp, paths.final, TRUE))
  /\ Return(OkResult(inputPath))
  /\ UNCHANGED <<now, inputPath, options, paths, fs0, runs, prev, probeOut, info, codec, batch>>

\* await fs.rename(paths.tmp, paths.final) rejects
FinalizeFail ==
  /\ pc = "finalize"
  /\ log' = Append(log, Op("rename", paths.tmp, paths.final, FALSE))
  /\ IF NeedsRestore(options.noBackup, paths, fs)
     THEN pc' = "restore" /\ UNCHANGED result
     ELSE Return(ErrorResult)
  /\ UNCHANGED <<fs, now, inputPath, options, paths, fs0, runs, prev, probeOut, info, codec, batch>>

\* try { await fs.rename(paths.bak, inputPath) } catch {} ; return error
Restore ==
  /\ pc = "restore"
  /\ \E ok \in BOOLEAN :
       /\ ok => CanRename(fs, paths.bak, inputPath)
       /\ fs' = IF ok THEN DoRename(fs, paths.bak, inputPath) ELSE fs
       /\ log' = Append(log, Op("rename", paths.bak, inputPath, ok))
  /\ Return(ErrorResult)
  /\ UNCHANGED <<now, inputPath, options, paths, fs0, runs, prev, probeOut, info, codec, batch>>

Next ==
  \/ \E p \in InputPaths, o \in OptionSets : DirectCall(p, o)
  \/ Stat
  \/ Probe
  \/ TransformOk
  \/ TransformFail
  \/ DeleteTemp
  \/ Backup
  \/ DeleteOriginal
  \/ FinalizeOk
  \/ FinalizeFail
  \/ Restore

Spec == Init /\ [][Next]_vars

\* ---- the prober and the codec choice over many prober outputs ----
ProberValues ==
  { <<>>, <<"0">>, <<"4", "0", "0">>, <<"4", "9", "9">>, <<"5", "0", "0">>,
    <<"1", "2", "8", "0", "0", "0">>, <<"N", "/", "A">>, <<"-", "5">>,
    <<"1", "6">>, <<"2", "4">>, <<"3", "2">>, <<"2", "4", "x">> }

ProberLines ==
  { <<k, "=">> \o v : k \in {"bit_rate", "bits_per_sample"}, v \in ProberValues }
    \cup { <<"codec_name", "=", "m", "p", "3">>, <<"x">>, <<>> }

RECURSIVE JoinLines(_)
JoinLines(ls) ==
  IF ls = <<>> THEN <<>> ELSE Head(ls) \o <<"\n">> \o JoinLines(Tail(ls))

ProberOutputs ==
  { JoinLines(ls) : ls \in UNION { [1..k -> ProberLines] : k \in 0..MaxLines } }

ProberInputs ==
  { <<"a", ".", "mp3">>, <<"c", ".", "ogg">>, <<"c", ".", "WAV">> }

ProberDir ==
  ( <<"a", ".", "mp3">> :> Raw("A") ) @@
  ( <<"c", ".", "ogg">> :> Raw("O") ) @@
  ( <<"c", ".", "WAV">> :> Raw("W") )

\* trimFile has validated its input and is about to probe it.
ProberInit ==
  /\ fs = ProberDir
  /\ now = 1
  /\ pc = "probe"
  /\ inputPath \in ProberInputs
  /\ options = [inPlace |-> FALSE, noBackup |-> FALSE, suffix |-> <<"_trimmed">>]
  /\ paths = NoPaths
  /\ result = NoResult
  /\ log = <<Op("stat", inputPath, <<>>, TRUE)>>
  /\ fs0 = fs
  /\ runs = 1
  /\ prev = NoPrev
  /\ probeOut \in ProberOutputs
  /\ info = NullInfo
  /\ codec = <<>>
  /\ batch = NoBatch

ProberNext == Probe

ProberSpec == ProberInit /\ [][ProberNext]_vars

\* ---- the batch runners: trimDirectory and runCli ----
\* Faulty variant: the result is read without awaiting trimFile.
AwaitedEarly(p) == TRUE
\* const res = await trimFile(t, options): the promise has resolved
Awaited(p) == p = "done"

IsSupportedName(n) == ToLowerCase(ExtName(n)) \in SUPPORTED_EXTS

\* fs.readdir lists every entry once, in an order of the filesystem's.
Listings(f) ==
  { e \in [1..Cardinality(DOMAIN f) -> DOMAIN f] :
      \A i, j \in DOMAIN e : i # j => e[i] # e[j] }

\* entries.filter(f => SUPPORTED_EXTS.has(extname(f).toLowerCase())).map(join)
TargetsOf(entries) == SelectSeq(entries, IsSupportedName)

CliFlagSets ==
  { [NoFlags EXCEPT !.version = TRUE],
    [NoFlags EXCEPT !.help = TRUE],
    [NoFlags EXCEPT !.help = TRUE, !.all = TRUE],
    NoFlags,
    [NoFlags EXCEPT !.all = TRUE],
    [NoFlags EXCEPT !.hasFile = TRUE, !.fileArg = <<"a", ".", "mp3">>],
    [NoFlags EXCEPT !.hasFile = TRUE, !.fileArg = <<"m", ".", "wav">>],
    [NoFlags EXCEPT !.hasFile = TRUE, !.fileArg = <<"a", ".", "txt">>] }

BatchDirs ==
  { ( <<"a", ".", "mp3">> :> Raw("A") ) @@
    ( <<"a", ".", "bak", ".", "mp3">> :> Raw("K") ) @@
    ( <<"a", ".", "txt">> :> Raw("T") ),
    ( <<"a", ".", "mp3">> :> Raw("A") ) @@
    ( <<"d", ".", "ogg">> :> DirEntry ) @@
    ( <<"a", ".", "txt">> :> Raw("T") ),
    ( <<"a", ".", "txt">> :> Raw("T") ) }

\* runCli() or trimDirectory(dir, options) has just been called.
BatchInit ==
  /\ fs \in BatchDirs
  /\ now = 1
  /\ pc = "idle"
  /\ inputPath = <<>>
  /\ options = [inPlace |-> FALSE, noBackup |-> FALSE, suffix |-> <<"_trimmed">>]
  /\ paths = NoPaths
  /\ result = NoResult
  /\ log = <<>>
  /\ fs0 = fs
  /\ runs = 0
  /\ prev = NoPrev
  /\ probeOut = DefaultProberOutput
  /\ info = NullInfo
  /\ codec = <<>>
  /\ \E c \in {"runCli", "trimDirectory"}, fl \in CliFlagSets, o \in OptionSets :
       /\ c = "trimDirectory" => fl = NoFlags
       /\ batch = [NoBatch EXCEPT !.caller = c, !.bpc = "start",
                                  !.flags = fl, !.options = o]

BatchUnchanged ==
  UNCHANGED <<fs, now, pc, inputPath, options, paths, result, log, fs0, runs,
              prev, probeOut, info, codec>>

\* runCli: --version prints the version and returns.
CliVersion ==
  /\ batch.caller = "runCli" /\ batch.bpc = "start"
  /\ batch.flags.version
  /\ batch' = [batch EXCEPT !.bpc = "end"]
  /\ BatchUnchanged

\* runCli: --help, or neither --all nor a file: print help, exit code 1
\* unless help was asked for.
CliHelp ==
  /\ batch.caller = "runCli" /\ batch.bpc = "start"
  /\ ~batch.flags.version
  /\ batch.flags.help \/ (~batch.flags.all /\ ~batch.flags.hasFile)
  /\ batch' = [batch EXCEPT !.bpc = "end",
                            !.exitCode = IF batch.flags.help THEN @ ELSE 1]
  /\ BatchUnchanged

\* runCli --all: await fs.readdir(cwd) resolves; no target: message, return.
CliList ==
  /\ batch.caller = "runCli" /\ batch.bpc = "start"
  /\ ~batch.flags.version /\ ~batch.flags.help /\ batch.flags.all
  /\ \E entries \in Listings(fs) :
       batch' = [batch EXCEPT !.targets = TargetsOf(entries),
                              !.bpc = IF TargetsOf(entries) = <<>>
                                      THEN "end" ELSE "loop"]
  /\ BatchUnchanged

\* runCli --all: fs.readdir rejects, runCli rejects, the bin script exits 1.
CliListFail ==
  /\ batch.caller = "runCli" /\ batch.bpc = "start"
  /\ ~batch.flags.version /\ ~batch.flags.help /\ batch.flags.all
  /\ batch' = [batch EXCEPT !.bpc = "rejected", !.exitCode = 1]
  /\ BatchUnchanged

\* trimDirectory: await fs.readdir(dir) resolves.
DirList ==
  /\ batch.caller = "trimDirectory" /\ batch.bpc = "start"
  /\ \E entries \in Listings(fs) :
       batch' = [batch EXCEPT !.targets = TargetsOf(entries),
                              !.bpc = IF TargetsOf(entries) = <<>>
                                      THEN "end" ELSE "loop"]
  /\ BatchUnchanged

\* trimDirectory: fs.readdir rejects and so does trimDirectory.
DirListFail ==
  /\ batch.caller = "trimDirectory" /\ batch.bpc = "start"
  /\ batch' = [batch EXCEPT !.bpc = "rejected"]
  /\ BatchUnchanged

\* for (const t of targets) { ... await trimFile(t, options) }: the call
LoopCall ==
  /\ batch.bpc = "loop"
  /\ Len(batch.started) < Len(batch.targets)
  /\ Call(batch.targets[Len(batch.started) + 1], batch.options)
  /\ batch' = [batch EXCEPT
                 !.bpc = "await",
                 !.started = Append(@, batch.targets[Len(batch.started) + 1])]

LoopAfter(b) ==
  IF Len(b.started) < Len(b.targets) THEN "loop" ELSE "end"

\* runCli --all: trimFile resolved; count the status.
CliCollect ==
  /\ batch.caller = "runCli" /\ batch.bpc = "await"
  /\ Awaited(pc)
  /\ batch' = [batch EXCEPT
                 !.ok = IF result.status = "ok" THEN @ + 1 ELSE @,
                 !.skipped = IF result.status = "skipped" THEN @ + 1 ELSE @,
                 !.err = IF result.status \notin {"ok", "skipped"} THEN @ + 1 ELSE @,
                 !.collected = Append(@, [input |-> inputPath, status |-> result.status]),
                 !.bpc = LoopAfter(batch)]
  /\ BatchUnchanged

\* trimDirectory: trimFile resolved; results.push(res).
DirCollect ==
  /\ batch.caller = "trimDirectory" /\ batch.bpc = "await"
  /\ Awaited(pc)
  /\ batch' = [batch EXCEPT
                 !.results = Append(@, result),
                 !.collected = Append(@, [input |-> inputPath, status |-> result.status]),
                 !.bpc = LoopAfter(batch)]
  /\ BatchUnchanged

\* runCli <file>: await trimFile(path.resolve(fileArg), options): the call
SingleCall ==
  /\ batch.caller = "runCli" /\ batch.bpc = "start"
  /\ ~batch.flags.version /\ ~batch.flags.help
  /\ ~batch.flags.all /\ batch.flags.hasFile
  /\ Call(batch.flags.fileArg, batch.options)
  /\ batch' = [batch EXCEPT !.bpc = "awaitSingle",
                            !.targets = <<batch.flags.fileArg>>,
                            !.started = <<batch.flags.fileArg>>]

\* runCli <file>: trimFile resolved; exit code 2 on skipped, 3 on error.
SingleCollect ==
  /\ batch.caller = "runCli" /\ batch.bpc = "awaitSingle"
  /\ Awaited(pc)
  /\ batch' = [batch EXCEPT
                 !.bpc = "end",
                 !.collected = Append(@, [input |-> inputPath, status |-> result.status]),
                 !.exitCode = IF result.status = "ok" THEN @
                              ELSE IF result.status = "skipped" THEN 2 ELSE 3]
  /\ BatchUnchanged

BatchNext ==
  \/ CliVersion
  \/ CliHelp
  \/ CliList
  \/ CliListFail
  \/ DirList
  \/ DirListFail
  \/ LoopCall
  \/ CliCollect
  \/ DirCollect
  \/ SingleCall
  \/ SingleCollect
  \/ Stat
  \/ Probe
  \/ TransformOk
  \/ TransformFail
  \/ DeleteTemp
  \/ Backup
  \/ DeleteOriginal
  \/ FinalizeOk
  \/ FinalizeFail
  \/ Restore

BatchSpec == BatchInit /\ [][BatchNext]_vars

\* ---- properties ----
Returned == pc = "done"
ValidInput ==
  IsFile(fs0, inputPath) /\ ToLowerCase(ExtName(inputPath)) \in SUPPORTED_EXTS
ProcessorFailed == Failed("ffmpeg", inputPath, Target(paths))
FinalRenameFailed == Failed("rename", paths.tmp, paths.final)
TempDeleteFailed == Failed("unlink", paths.tmp, <<>>)
ExpectedBak == BaseName(inputPath, ExtName(inputPath)) \o <<".", "bak">> \o ExtName(inputPath)
ExpectedOut == BaseName(inputPath, ExtName(inputPath)) \o options.suffix \o ExtName(inputPath)

\* C1 (as claimed): for a valid input in in-place mode, whatever fails, when
\* trimFile returns a file exists at the input path holding the original or
\* the trimmed bytes.
C1_OriginalNeverMissing ==
  (Returned /\ options.inPlace /\ ValidInput) =>
    /\ IsFile(fs, inputPath)
    /\ fs[inputPath].data \in {fs0[inputPath].data, Trimmed(fs0[inputPath].data)}

\* C2 (as claimed): when the processor fails, in either mode, the input is
\* unchanged, nothing new is left at the copy output path or the temp path,
\* and the result is error.
C2_ProcessorFailureLeavesNothing ==
  (Returned /\ ProcessorFailed) =>
    /\ inputPath \in DOMAIN fs
    /\ fs[inputPath] = fs0[inputPath]
    /\ Target(paths) \in DOMAIN fs => Target(paths) \in DOMAIN fs0
    /\ result.status = "error"

\* C3: when the final rename fails with backups enabled, trimFile returns
\* error right after attempting to rename the backup back, and either the
\* input path holds the original bytes and no backup remains, or the backup
\* and the temp file both remain; the input, backup and temp paths are never
\* all empty.
C3_FinalRenameFailureResidue ==
  (Returned /\ options.inPlace /\ ~options.noBackup /\ FinalRenameFailed) =>
    /\ result.status = "error"
    /\ Len(log) >= 2
    /\ log[Len(log) - 1] = Op("rename", paths.tmp, paths.final, FALSE)
    /\ log[Len(log)].op = "rename"
    /\ log[Len(log)].src = paths.bak
    /\ log[Len(log)].dst = inputPath
    /\ \/ /\ IsFile(fs, inputPath)
          /\ fs[inputPath] = fs0[inputPath]
          /\ paths.bak \notin DOMAIN fs
       \/ /\ paths.bak \in DOMAIN fs
          /\ paths.tmp \in DOMAIN fs
    /\ ~(inputPath \notin DOMAIN fs /\ paths.bak \notin DOMAIN fs
         /\ paths.tmp \notin DOMAIN fs)

C3_Witness ==
  /\ Returned /\ options.inPlace /\ ~options.noBackup /\ FinalRenameFailed
  /\ log[Len(log)] = Op("rename", paths.bak, inputPath, TRUE)
  /\ fs[inputPath] = fs0[inputPath]

C5_InPlaceBackupSuccess ==
  (Returned /\ result.status = "ok" /\ options.inPlace /\ ~options.noBackup) =>
    /\ IsFile(fs, inputPath)
    /\ fs[inputPath].data = Trimmed(fs0[inputPath].data)
    /\ paths.bak = ExpectedBak
    /\ ExpectedBak \in DOMAIN fs
    /\ fs[ExpectedBak] = fs0[inputPath]
    /\ paths.tmp \notin DOMAIN fs

C5_Witness ==
  /\ Returned /\ result.status = "ok" /\ options.inPlace /\ ~options.noBackup
  /\ ExpectedBak \in DOMAIN fs0
  /\ fs[ExpectedBak] # fs0[ExpectedBak]

\* C6 (as claimed): after an ok in-place run with backups disabled the
\* original is replaced, no file exists at <base>.bak<ext>, no temp remains.
C6_NoBackupFileExists ==
  (Returned /\ result.status = "ok" /\ options.inPlace /\ options.noBackup) =>
    /\ IsFile(fs, inputPath)
    /\ fs[inputPath].data = Trimmed(fs0[inputPath].data)
    /\ ExpectedBak \notin DOMAIN fs
    /\ paths.tmp \notin DOMAIN fs

\* C6 (amended): after an ok in-place run with backups disabled the original
\* is replaced, <base>.bak<ext> is exactly as it was before the run (absent
\* if it was absent), and no temp file remains.
C6_NoBackupFileCreated ==
  (Returned /\ result.status = "ok" /\ options.inPlace /\ options.noBackup) =>
    /\ IsFile(fs, inputPath)
    /\ fs[inputPath].data = Trimmed(fs0[inputPath].data)
    /\ ExpectedBak \in DOMAIN fs <=> ExpectedBak \in DOMAIN fs0
    /\ ExpectedBak \in DOMAIN fs => fs[ExpectedBak] = fs0[ExpectedBak]
    /\ paths.tmp \notin DOMAIN fs

C6_Witness ==
  /\ Returned /\ result.status = "ok" /\ options.inPlace /\ options.noBackup
  /\ prev.status = "ok" /\ prev.inPlace /\ prev.input = inputPath
  /\ ExpectedBak \in DOMAIN fs

\* C7 (as claimed): after an ok copy-mode run, for every suffix, the input is
\* untouched and the output exists at <base><suffix><ext>, the reported path.
C7_CopyLeavesInputUntouched ==
  (Returned /\ result.status = "ok" /\ ~options.inPlace) =>
    /\ inputPath \in DOMAIN fs
    /\ fs[inputPath] = fs0[inputPath]
    /\ IsFile(fs, ExpectedOut)
    /\ result.hasPath
    /\ result.outputPath = ExpectedOut

\* C8: for an input that is missing, not a regular file, or of an unsupported
\* extension, trimFile issues nothing but the stat, changes nothing on disk,
\* and returns skipped.
C8_InvalidInputSkipped ==
  (pc # "idle" /\ ~ValidInput) =>
    /\ pc \in {"stat", "done"}
    /\ \A i \in DOMAIN log : log[i].op = "stat"
    /\ fs = fs0
    /\ Returned => result.status = "skipped"

C8_Witness ==
  /\ Returned /\ result.status = "skipped"
  /\ IsFile(fs0, inputPath)
  /\ log = <<Op("stat", inputPath, <<>>, TRUE)>>
  /\ ToLowerCase(ExtName(inputPath)) \notin SUPPORTED_EXTS

\* C9: trimFile always returns one of ok, skipped, error; a failed processor,
\* rename or unlink yields error; ok carries the resulting path (the input
\* path in in-place mode); skipped and error carry no path.
C9_StructuredResult ==
  Returned =>
    /\ result.status \in {"ok", "skipped", "error"}
    /\ (\E i \in DOMAIN log :
          log[i].op \in {"ffmpeg", "rename", "unlink"} /\ ~log[i].ok)
         => result.status = "error"
    /\ result.status = "ok" =>
         /\ result.hasPath
         /\ result.outputPath = IF options.inPlace THEN inputPath ELSE paths.out
    /\ result.status # "ok" => ~result.hasPath

C9_Witness ==
  /\ Returned /\ result.status = "error"
  /\ Len(log) > 0
  /\ log[Len(log)] = Op("rename", paths.bak, inputPath, FALSE)

\* C10: a second ok copy-mode run on the same input with the same suffix
\* reports the same output path, leaves the fresh output there, and leaves
\* the same set of files on disk as the first run did.
C10_CopyPlacementIdempotent ==
  (/\ Returned /\ result.status = "ok" /\ ~options.inPlace
   /\ prev.status = "ok" /\ ~prev.inPlace
   /\ prev.input = inputPath /\ prev.suffix = options.suffix) =>
    /\ result.outputPath = prev.outputPath
    /\ log[Len(log)] = Op("ffmpeg", inputPath, prev.outputPath, TRUE)
    /\ IsFile(fs, prev.outputPath)
    /\ fs[prev.outputPath].data = Trimmed(fs0[inputPath].data)
    /\ DOMAIN fs = prev.names

C10_Witness ==
  /\ Returned /\ result.status = "ok" /\ ~options.inPlace
  /\ prev.status = "ok" /\ ~prev.inPlace
  /\ prev.input = inputPath /\ prev.suffix = options.suffix
  /\ options.suffix = <<"_trimmed">>


\* C13: when the step that displaces the original fails (rename to the backup
\* path, or delete without backups), the original is untouched, the delete
\* of the temp output is the last thing attempted, the final rename is never
\* attempted, an existing backup is as it was, and the result is error.
DisplaceFailed ==
  \/ Failed("rename", inputPath, paths.bak)
  \/ Failed("unlink", inputPath, <<>>)

C13_DisplaceFailureLeavesOriginal ==
  (Returned /\ paths.kind = "inPlace" /\ DisplaceFailed) =>
    /\ inputPath \in DOMAIN fs
    /\ fs[inputPath] = fs0[inputPath]
    /\ log[Len(log)].op = "unlink"
    /\ log[Len(log)].src = paths.tmp
    /\ \A i \in DOMAIN log :
         ~(log[i].op = "rename" /\ log[i].src = paths.tmp /\ log[i].dst = paths.final)
    /\ paths.bak \in DOMAIN fs0 =>
         (paths.bak \in DOMAIN fs /\ fs[paths.bak] = fs0[paths.bak])
    /\ result.status = "error"

C13_Witness ==
  /\ Returned /\ paths.kind = "inPlace"
  /\ Failed("rename", inputPath, paths.bak)
  /\ IsFile(fs0, paths.bak)
  /\ paths.tmp \notin DOMAIN fs

\* C14: within one run the input is renamed or deleted only after the
\* processor resolved; the operations are issued in the order stat, probe,
\* processor, displacement, final rename (then at most a mitigation step);
\* copy mode issues no rename and no delete and an ok copy run ends with the
\* processor.
Rank(e) ==
  CASE e.op = "stat" -> 1
    [] e.op = "probe" -> 2
    [] e.op = "ffmpeg" -> 3
    [] e.op \in {"rename", "unlink"} /\ e.src = inputPath -> 4
    [] e.op = "rename" /\ e.src = paths.tmp /\ e.dst = paths.final -> 5
    [] OTHER -> 6

C14_TransactionOrder ==
  (pc # "idle") =>
    /\ \A i \in DOMAIN log :
         (log[i].op \in {"rename", "unlink"} /\ log[i].src = inputPath) =>
           \E j \in 1..(i - 1) : log[j] = Op("ffmpeg", inputPath, Target(paths), TRUE)
    /\ \A i, j \in DOMAIN log : i < j => Rank(log[i]) < Rank(log[j])
    /\ paths.kind = "copy" =>
         \A i \in DOMAIN log : log[i].op \notin {"rename", "unlink"}
    /\ (Returned /\ result.status = "ok" /\ paths.kind = "copy") =>
         log[Len(log)] = Op("ffmpeg", inputPath, paths.out, TRUE)

C14_Witness ==
  /\ Returned /\ result.status = "ok" /\ paths.kind = "inPlace"
  /\ Len(log) = 5
  /\ Rank(log[4]) = 4
  /\ Rank(log[5]) = 5

\* C15: within one run no operation is issued twice: the prober and the
\* processor run at most once, each rename and each delete is attempted at
\* most once.
SameOp(e1, e2) == e1.op = e2.op /\ e1.src = e2.src /\ e1.dst = e2.dst

C15_NothingRetried ==
  (pc # "idle") =>
    /\ \A i, j \in DOMAIN log : i < j => ~SameOp(log[i], log[j])
    /\ Cardinality({i \in DOMAIN log : log[i].op = "probe"}) <= 1
    /\ Cardinality({i \in DOMAIN log : log[i].op = "ffmpeg"}) <= 1

C15_Witness ==
  /\ Returned
  /\ Len(log) = 6
  /\ ~log[2].ok /\ ~log[5].ok /\ ~log[6].ok

\* C19 (as claimed): the temp path of an in-place plan is not the path of a
\* file that existed when the run started; temp, backup and final paths are
\* pairwise distinct and the final path is the input path.
C19_TempPathUnique ==
  (pc \notin {"idle", "stat", "probe"} /\ paths.kind = "inPlace") =>
    /\ paths.tmp \notin DOMAIN fs0
    /\ paths.tmp # paths.bak
    /\ paths.tmp # paths.final
    /\ paths.bak # paths.final
    /\ paths.final = inputPath


\* C16: probing never aborts the pipeline: a run whose stat resolved on a
\* valid input issues the prober once and the processor once, whether the
\* prober resolves or rejects; a rejected prober yields {null, null}; the
\* status is ok exactly when no processor, rename or delete step failed.
Probed == \E i \in DOMAIN log : log[i].op = "probe"
StepFailed ==
  \E i \in DOMAIN log : log[i].op \in {"ffmpeg", "rename", "unlink"} /\ ~log[i].ok

C16_ProbeNeverAborts ==
  /\ (pc # "idle" /\ Failed("probe", inputPath, <<>>)) => info = NullInfo
  /\ (Returned /\ ValidInput /\ log[1] = Op("stat", inputPath, <<>>, TRUE)) =>
       /\ Cardinality({i \in DOMAIN log : log[i].op = "probe"}) = 1
       /\ Cardinality({i \in DOMAIN log : log[i].op = "ffmpeg"}) = 1
       /\ result.status \in {"ok", "error"}
       /\ result.status = "error" <=> StepFailed

C16_Witness ==
  /\ Returned /\ result.status = "ok"
  /\ Failed("probe", inputPath, <<>>)
  /\ info = NullInfo
  /\ probeOut # <<>>

\* C17 (as claimed): each field of the stream info is null or a positive
\* integer; bitrateKbps is never 0.
C17_StreamInfoPositive ==
  (pc = "transform") =>
    /\ info.bitrateKbps.isNull \/ info.bitrateKbps.n > 0
    /\ info.bitsPerSample.isNull \/ info.bitsPerSample.n > 0

\* C18 (as claimed): for .wav the PCM depth is 32 / 24 / 16 by bitsPerSample
\* (16 when unknown), whatever the bitrate; for .mp3 and .ogg the bitrate
\* argument <bitrateKbps>k is chosen exactly when bitrateKbps is non-null,
\* the quality preset (2 for mp3, 5 for ogg) exactly when it is null.
C18_ExpectedCodec ==
  LET ext == ToLowerCase(ExtName(inputPath))
      enc == IF ext = <<".", "mp3">> THEN "libmp3lame" ELSE "libvorbis"
      q == IF ext = <<".", "mp3">> THEN "2" ELSE "5"
  IN IF ext = <<".", "wav">>
     THEN IF info.bitsPerSample.isNull THEN <<"-c:a", "pcm_s16le">>
          ELSE IF info.bitsPerSample.n >= 32 THEN <<"-c:a", "pcm_s32le">>
          ELSE IF info.bitsPerSample.n >= 24 THEN <<"-c:a", "pcm_s24le">>
          ELSE <<"-c:a", "pcm_s16le">>
     ELSE IF info.bitrateKbps.isNull
          THEN <<"-c:a", enc, "-q:a", q>>
          ELSE <<"-c:a", enc, "-b:a", ToString(info.bitrateKbps.n) \o "k">>

C18_CodecSelection ==
  (pc = "transform") => codec = C18_ExpectedCodec


\* C11: the batch runners process the list strictly in order and one entry at
\* a time: the entries started are a prefix of the list, at most one call is
\* not yet collected, no call is pending when the next one is about to
\* start, each collected result is the terminal status of the entry at its
\* position, and at the end ok + errors + skipped (runCli) or the number of
\* results (trimDirectory) is the number of files.
InLoop == batch.bpc \in {"loop", "await", "end"} /\ batch.targets # <<>>
            /\ (batch.caller = "trimDirectory" \/ batch.flags.all)
Counted ==
  IF batch.caller = "runCli" THEN batch.ok + batch.err + batch.skipped
  ELSE Len(batch.results)

C11_BatchSequential ==
  InLoop =>
    /\ Len(batch.started) <= Len(batch.targets)
    /\ batch.started = SubSeq(batch.targets, 1, Len(batch.started))
    /\ Counted = Len(batch.collected)
    /\ Len(batch.started) - Counted \in {0, 1}
    /\ batch.bpc = "await" => Len(batch.started) = Counted + 1
    /\ batch.bpc = "loop" => (pc \in {"idle", "done"} /\ Len(batch.started) = Counted)
    /\ \A i \in DOMAIN batch.collected :
         /\ batch.collected[i].input = batch.targets[i]
         /\ batch.collected[i].status \in {"ok", "skipped", "error"}
    /\ \A i \in DOMAIN batch.results :
         batch.results[i].status = batch.collected[i].status
    /\ batch.bpc = "end" => Counted = Len(batch.targets)

C11_Witness ==
  /\ InLoop /\ batch.bpc = "end" /\ batch.caller = "runCli"
  /\ Len(batch.targets) = 2
  /\ batch.ok = 1 /\ batch.err = 1

\* C12 (as claimed): while a batch processes one entry, every path created,
\* overwritten, renamed or deleted is one of that entry's own input, output,
\* temp and backup paths and is not another entry of the list.
Changed(f0, f) ==
  { p \in DOMAIN f0 \cup DOMAIN f :
      p \notin DOMAIN f0 \/ p \notin DOMAIN f \/ f0[p] # f[p] }
OtherEntries ==
  { batch.targets[i] : i \in DOMAIN batch.targets } \ {inputPath}

C12_EntriesDisjoint ==
  (InLoop /\ pc # "idle") =>
    \A p \in Changed(fs0, fs) :
      /\ p \in {inputPath, paths.out, paths.tmp, paths.bak}
      /\ p \notin OtherEntries

\* C20 (as claimed): when runCli ends the exit code is 1 when no target was
\* given (without --help), 2 / 3 / 0 when the single file was skipped /
\* failed / trimmed, and in --all mode non-zero exactly when nothing was
\* found, a file failed or no file was trimmed.
CliEnded == batch.caller = "runCli" /\ batch.bpc \in {"end", "rejected"}

C20_ExitCodes ==
  (CliEnded /\ ~batch.flags.version /\ ~batch.flags.help) =>
    /\ (~batch.flags.all /\ ~batch.flags.hasFile) => batch.exitCode = 1
    /\ (~batch.flags.all /\ batch.flags.hasFile) =>
         batch.exitCode = (CASE result.status = "skipped" -> 2
                             [] result.status = "error" -> 3
                             [] OTHER -> 0)
    /\ batch.flags.all =>
         (batch.exitCode # 0 <=>
            \/ batch.bpc = "rejected"
            \/ batch.targets = <<>>
            \/ batch.err > 0
            \/ batch.ok = 0)

====
